---- MODULE Spec2Model ----
(***************************************************************************)
(* A model of the template engine of src/template.js and of the util       *)
(* helpers it calls (src/README.md).                                       *)
(*                                                                         *)
(* A JavaScript string is a sequence of one-character strings, so that the *)
(* regular expressions of the code are modelled by what they match,        *)
(* character by character.  A regular-expression match is a record         *)
(* [found, index, len, g]: index is the number of characters before the    *)
(* match (JavaScript's match.index), len the length of match[0], g the     *)
(* capture groups, a group that took no part being <<>>.                   *)
(*                                                                         *)
(* A value that a function of the code computes once and reads several     *)
(* times is handed on as a parameter of a helper operator.                 *)
(***************************************************************************)
EXTENDS Integers, Sequences, FiniteSets, TLC

VARIABLES
    pc,            \* where the program is: what was called last
    string,        \* the global variable `string` that setup reads
    source,        \* the argument of template(string)
    pending,       \* setup: the fragments its forEach has still to visit
    fed,           \* setup: all the fragments tokenise returned to it
    branches,      \* the branches made so far, each named by its place
    currentBranch, \* makeTree: currentBranch (0: undefined)
    thrown,        \* what the last call threw (NoError: nothing)
    last,          \* the last builder step: what it was given, and the state before
    context,       \* the context handed to the last render
    contextAfter,  \* the same object once the render has returned
    rendered,      \* what the last render returned
    tokIn,         \* util.String.tokenise: the string argument
    tokPattern,    \* util.String.tokenise: the pattern argument
    tokOut         \* util.String.tokenise: the returned array

vars == <<pc, string, source, pending, fed, branches, currentBranch, thrown, last,
          context, contextAfter, rendered, tokIn, tokPattern, tokOut>>

tokVars == <<tokIn, tokPattern, tokOut>>
treeVars == <<string, source, pending, fed, branches, currentBranch, thrown, last>>
renderVars == <<context, contextAfter, rendered>>

----------------------------------------------------------------------------
(* Strings and matches                                                     *)

\* str.substr(from) with from counted from 0.
substrFrom(str, from) == SubSeq(str, from + 1, Len(str))

\* The first position p >= from (1-based) with str[p] = c, or 0.
RECURSIVE indexOfChar(_, _, _)
indexOfChar(str, c, from) ==
    IF from > Len(str) THEN 0
    ELSE IF str[from] = c THEN from
    ELSE indexOfChar(str, c, from + 1)

\* array.join(""): the concatenation of a sequence of strings.
RECURSIVE join(_)
join(strs) ==
    IF strs = <<>> THEN <<>> ELSE Head(strs) \o join(Tail(strs))

\* Whether lit stands in str at position i.
litAt(str, i, lit) ==
    /\ i >= 1
    /\ i + Len(lit) - 1 <= Len(str)
    /\ SubSeq(str, i, i + Len(lit) - 1) = lit

\* The `.` of a JavaScript regular expression without the s flag.
Dot(c) == c \notin {"\n", "\r"}

\* The group (^|.|\r|\n) when it takes one character.
PrefixChar(c) == Dot(c) \/ c = "\r" \/ c = "\n"

NoMatch == [found |-> FALSE, index |-> 0, len |-> 0, g |-> <<>>]

\* A match of len characters after index characters, with its groups.
Match(index, len, g) == [found |-> TRUE, index |-> index, len |-> len, g |-> g]

\* The first of two attempts that matches: the order in which a regular
\* expression tries its alternatives and its start positions.
firstMatch(m, other) == IF m.found THEN m ELSE other

\* match[0].
matched(str, m) == SubSeq(str, m.index + 1, m.index + m.len)

----------------------------------------------------------------------------
(* BRANCH_PART = /(^|.|\r|\n)\$\{#[^\}]+\}/                                *)

\* \$\{#[^\}]+\} matched at position p (1-based): the position of the closing
\* brace, or 0.  [^\}]+ is greedy and cannot cross a brace, so it ends right
\* before the first one, and it needs one character at least.
markerEnd(str, p) ==
    IF litAt(str, p, <<"$", "{", "#">>) /\ p + 3 <= Len(str) /\ str[p + 3] # "}"
    THEN indexOfChar(str, "}", p + 4)
    ELSE 0

\* The match that starts after i characters and ends at position e, if the
\* marker was found (e > 0).
branchPartMatch(i, e, prefix) ==
    IF e > 0 THEN Match(i, e - i, <<prefix>>) ELSE NoMatch

\* The match of BRANCH_PART starting at 0-based index i, the alternatives of
\* the first group tried in order: ^ (empty, at the start only), then one
\* character.
branchPartAt(str, i) ==
    firstMatch(IF i = 0 THEN branchPartMatch(0, markerEnd(str, 1), <<>>) ELSE NoMatch,
               IF i + 1 <= Len(str) /\ PrefixChar(str[i + 1])
               THEN branchPartMatch(i, markerEnd(str, i + 2), <<str[i + 1]>>)
               ELSE NoMatch)

RECURSIVE branchPartFrom(_, _)
branchPartFrom(str, i) ==
    IF i > Len(str) THEN NoMatch
    ELSE firstMatch(branchPartAt(str, i), branchPartFrom(str, i + 1))

\* str.match(BRANCH_PART): the leftmost match.
BRANCH_PART(str) == branchPartFrom(str, 0)

----------------------------------------------------------------------------
(* The default pattern of supplant, /(^|.|\r|\n)(\$\{(.*?)\})/             *)

\* (.*?)\} from position q: the position of the closing brace, or 0.  (.*?)
\* is lazy and ends at the first brace; `.` does not match a line break.
RECURSIVE placeholderEnd(_, _)
placeholderEnd(str, q) ==
    IF q > Len(str) THEN 0
    ELSE IF str[q] = "}" THEN q
    ELSE IF Dot(str[q]) THEN placeholderEnd(str, q + 1)
    ELSE 0

\* \$\{(.*?)\} at position p: the position of the closing brace, or 0.
placeholderAt(str, p) ==
    IF litAt(str, p, <<"$", "{">>) THEN placeholderEnd(str, p + 2) ELSE 0

\* The match that starts after i characters, the placeholder standing from
\* p to e: g = <<prefix, whole placeholder, placeholder text>>.
supplantMatch(str, i, p, e, prefix) ==
    IF e > 0
    THEN Match(i, e - i, <<prefix, SubSeq(str, p, e), SubSeq(str, p + 2, e - 1)>>)
    ELSE NoMatch

supplantPatternAt(str, i) ==
    firstMatch(IF i = 0 THEN supplantMatch(str, 0, 1, placeholderAt(str, 1), <<>>)
               ELSE NoMatch,
               IF i + 1 <= Len(str) /\ PrefixChar(str[i + 1])
               THEN supplantMatch(str, i, i + 2, placeholderAt(str, i + 2), <<str[i + 1]>>)
               ELSE NoMatch)

RECURSIVE supplantPatternFrom(_, _)
supplantPatternFrom(str, i) ==
    IF i > Len(str) THEN NoMatch
    ELSE firstMatch(supplantPatternAt(str, i), supplantPatternFrom(str, i + 1))

SUPPLANT_PATTERN(str) == supplantPatternFrom(str, 0)

\* /(?:)/, the pattern tokenise falls back to: it matches the empty string at
\* the start of any string.
EMPTY_PATTERN(str) == Match(0, 0, <<>>)

\* str.match(pattern), the pattern named by a tag.
match(str, pattern) ==
    CASE pattern = "BRANCH_PART" -> BRANCH_PART(str)
      [] pattern = "SUPPLANT" -> SUPPLANT_PATTERN(str)
      [] OTHER -> EMPTY_PATTERN(str)

----------------------------------------------------------------------------
(* JavaScript values.  Every value is a record of one shape: t is typeof   *)
(* (with "null" and "array" told apart), n the number (or 1/0 of a         *)
(* boolean), s the characters of a string (or the path of a deferred       *)
(* lookup), items the own properties of an array or object in enumeration  *)
(* order, each [key, value], an array's keys being its indices.  Numbers   *)
(* are integers.  In the contexts drawn, two arrays or objects held at     *)
(* different places differ in content, so that equality of values          *)
(* coincides with identity of references.                                  *)

Undefined == [t |-> "undefined", n |-> 0, s |-> <<>>, items |-> <<>>]
Null == [t |-> "null", n |-> 0, s |-> <<>>, items |-> <<>>]
Bool(b) == [t |-> "boolean", n |-> IF b THEN 1 ELSE 0, s |-> <<>>, items |-> <<>>]
Num(n) == [t |-> "number", n |-> n, s |-> <<>>, items |-> <<>>]
Str(s) == [t |-> "string", n |-> 0, s |-> s, items |-> <<>>]
Func(path) == [t |-> "function", n |-> 0, s |-> path, items |-> <<>>]
Obj(items) == [t |-> "object", n |-> 0, s |-> <<>>, items |-> items]

Digits == <<"0", "1", "2", "3", "4", "5", "6", "7", "8", "9">>
IsDigit(c) == \E d \in 1..10 : Digits[d] = c
DigitValue(c) == (CHOOSE d \in 1..10 : Digits[d] = c) - 1

\* String(n) of an integer.
RECURSIVE natToString(_)
natToString(n) ==
    IF n < 10 THEN <<Digits[n + 1]>>
    ELSE natToString(n \div 10) \o <<Digits[(n % 10) + 1]>>

numberToString(n) == IF n < 0 THEN <<"-">> \o natToString(-n) ELSE natToString(n)

\* An array literal: its elements keyed by their indices.
Arr(elems) ==
    [t |-> "array", n |-> 0, s |-> <<>>,
     items |-> [i \in 1..Len(elems) |-> [key |-> natToString(i - 1), value |-> elems[i]]]]

\* The value of a run of digits.
RECURSIVE digitsValue(_)
digitsValue(s) ==
    IF s = <<>> THEN 0
    ELSE 10 * digitsValue(SubSeq(s, 1, Len(s) - 1)) + DigitValue(s[Len(s)])

AllDigits(s) == s # <<>> /\ \A i \in 1..Len(s) : IsDigit(s[i])

LengthKey == <<"l", "e", "n", "g", "t", "h">>

\* Object.prototype.hasOwnProperty.call(v, key).
hasOwnProperty(v, key) ==
    CASE v.t = "object" -> \E i \in 1..Len(v.items) : v.items[i].key = key
      [] v.t = "array" ->
            key = LengthKey \/ \E i \in 1..Len(v.items) : v.items[i].key = key
      [] v.t = "string" ->
            \/ key = LengthKey
            \/ /\ AllDigits(key)
               /\ Len(key) = 1 \/ key[1] # "0"
               /\ digitsValue(key) < Len(v.s)
      [] OTHER -> FALSE

\* v[key] of an own property.
getOwn(v, key) ==
    CASE v.t \in {"object", "array"} /\ (\E i \in 1..Len(v.items) : v.items[i].key = key) ->
            v.items[CHOOSE i \in 1..Len(v.items) : v.items[i].key = key].value
      [] v.t = "array" /\ key = LengthKey -> Num(Len(v.items))
      [] v.t = "string" /\ key = LengthKey -> Num(Len(v.s))
      [] v.t = "string" -> Str(<<v.s[digitsValue(key) + 1]>>)
      [] OTHER -> Undefined

----------------------------------------------------------------------------
(* util.String.interpret, util.String.toPath, util.Object.access           *)

\* !!v.
truthy(v) ==
    CASE v.t \in {"undefined", "null"} -> FALSE
      [] v.t = "boolean" -> v.n = 1
      [] v.t = "number" -> v.n # 0
      [] v.t = "string" -> v.s # <<>>
      [] OTHER -> TRUE

\* util.String.interpret of a value whose String() the engine needs.
interpretString(v) ==
    CASE v.t = "string" -> v.s
      [] v.t \in {"null", "undefined"} -> <<>>
      [] v.t = "number" -> numberToString(v.n)
      [] v.t = "boolean" -> IF v.n = 1 THEN <<"t", "r", "u", "e">>
                            ELSE <<"f", "a", "l", "s", "e">>
      [] OTHER -> <<"[", "o", "b", "j", "e", "c", "t", " ", "O", "b", "j", "e", "c", "t", "]">>

\* The end of the run [^.[\]]+ that starts at i.
RECURSIVE keyRunEnd(_, _)
keyRunEnd(str, i) ==
    IF i + 1 <= Len(str) /\ str[i + 1] \notin {".", "[", "]"}
    THEN keyRunEnd(str, i + 1)
    ELSE i

\* The end of the run \d+ that starts at i, or i - 1 when there is no digit.
RECURSIVE digitRunEnd(_, _)
digitRunEnd(str, i) ==
    IF i <= Len(str) /\ IsDigit(str[i]) THEN digitRunEnd(str, i + 1) ELSE i - 1

\* \d+(?:\.\d+)?\] with the digits standing from d to e: the position of the
\* closing bracket, or 0.
bracketNumberTail(str, d, e) ==
    IF e < d THEN 0
    ELSE IF e + 1 <= Len(str) /\ str[e + 1] = "]" THEN e + 1
    ELSE IF /\ e + 1 <= Len(str) /\ str[e + 1] = "."
            /\ digitRunEnd(str, e + 2) >= e + 2
            /\ digitRunEnd(str, e + 2) + 1 <= Len(str)
            /\ str[digitRunEnd(str, e + 2) + 1] = "]"
    THEN digitRunEnd(str, e + 2) + 1
    ELSE 0

\* \[(-?\d+(?:\.\d+)?)\] at i: the position of the closing bracket, or 0.
bracketNumberEnd(str, i) ==
    IF i + 1 <= Len(str) /\ str[i + 1] = "-"
    THEN bracketNumberTail(str, i + 2, digitRunEnd(str, i + 2))
    ELSE bracketNumberTail(str, i + 1, digitRunEnd(str, i + 1))

\* ((?:(?!\2)[^\\]|\\.)*?)\2\] from j, the quote being q: the position of the
\* closing quote, or 0.
RECURSIVE quotedEnd(_, _, _)
quotedEnd(str, j, q) ==
    IF j > Len(str) THEN 0
    ELSE IF str[j] = q
    THEN IF j + 1 <= Len(str) /\ str[j + 1] = "]" THEN j ELSE 0
    ELSE IF str[j] = "\\"
    THEN IF j + 1 <= Len(str) /\ Dot(str[j + 1]) THEN quotedEnd(str, j + 2, q) ELSE 0
    ELSE quotedEnd(str, j + 1, q)

bracketQuotedEnd(str, i) ==
    IF i + 1 <= Len(str) /\ str[i + 1] \in {"\"", "'"}
    THEN quotedEnd(str, i + 2, str[i + 1])
    ELSE 0

\* string.replace(/\\(\\)?/g, '$1').
RECURSIVE unescapeKey(_)
unescapeKey(str) ==
    IF str = <<>> THEN <<>>
    ELSE IF str[1] = "\\"
    THEN IF Len(str) >= 2 /\ str[2] = "\\"
         THEN <<"\\">> \o unescapeKey(SubSeq(str, 3, Len(str)))
         ELSE unescapeKey(Tail(str))
    ELSE <<str[1]>> \o unescapeKey(Tail(str))

\* (?:\.|\[\]) at i: the position after it, or 0.
emptyKeyMark(str, i) ==
    IF i <= Len(str) /\ str[i] = "." THEN i + 1
    ELSE IF i + 1 <= Len(str) /\ str[i] = "[" /\ str[i + 1] = "]" THEN i + 2
    ELSE 0

\* (?=(?:\.|\[\])(?:\.|\[\]|$)) at i.
emptyKeyAt(str, i) ==
    /\ emptyKeyMark(str, i) > 0
    /\ \/ emptyKeyMark(str, i) > Len(str)
       \/ emptyKeyMark(str, emptyKeyMark(str, i)) > 0

\* The alternatives of the pattern of stringToPath that start with a bracket,
\* ne and qe being where the numeric and the quoted one end (0: no match):
\* whether a key is pushed, the key, and where the next match is looked for.
bracketKeyAt(str, i, ne, qe) ==
    IF ne > 0
    THEN [push |-> TRUE, key |-> SubSeq(str, i + 1, ne - 1), next |-> ne + 1]
    ELSE IF qe > 0
    THEN [push |-> TRUE, key |-> unescapeKey(SubSeq(str, i + 2, qe - 1)), next |-> qe + 2]
    ELSE [push |-> emptyKeyAt(str, i), key |-> <<>>, next |-> i + 1]

\* The match of the pattern at i, its alternatives in order; where nothing
\* matches the scan moves on by one character.
pathKeyAt(str, i) ==
    IF str[i] \notin {".", "[", "]"}
    THEN [push |-> TRUE, key |-> SubSeq(str, i, keyRunEnd(str, i)),
          next |-> keyRunEnd(str, i) + 1]
    ELSE IF str[i] = "["
    THEN bracketKeyAt(str, i, bracketNumberEnd(str, i), bracketQuotedEnd(str, i))
    ELSE [push |-> emptyKeyAt(str, i), key |-> <<>>, next |-> i + 1]

\* The keys the global replace of stringToPath pushes from position i on.
RECURSIVE pathKeysFrom(_, _)
RECURSIVE pathKeysAfter(_, _)
pathKeysFrom(str, i) ==
    IF i > Len(str) THEN <<>> ELSE pathKeysAfter(str, pathKeyAt(str, i))

pathKeysAfter(str, k) ==
    (IF k.push THEN <<k.key>> ELSE <<>>) \o pathKeysFrom(str, k.next)

\* util.String.toPath.
stringToPath(paths) ==
    (IF paths # <<>> /\ paths[1] = "." THEN << <<>> >> ELSE <<>>) \o pathKeysFrom(paths, 1)

\* The every() of access: it stops at the first undefined.  next is
\* object[key], read when object owns the key.
RECURSIVE accessKeys(_, _)
RECURSIVE accessNext(_, _)
accessKeys(object, keys) ==
    IF keys = <<>> THEN object
    ELSE accessNext(IF /\ object.t \notin {"null", "undefined"}
                       /\ hasOwnProperty(object, Head(keys))
                    THEN getOwn(object, Head(keys))
                    ELSE Undefined,
                    Tail(keys))

accessNext(next, keys) ==
    IF next.t = "undefined" THEN next ELSE accessKeys(next, keys)

\* util.Object.access.
access(object, path) == accessKeys(object, stringToPath(path))

----------------------------------------------------------------------------
(* util.String.tokenise and util.String.supplant                           *)

\* The handler tokenise uses when none is given: the whole match.
defaultHandler(str, m) == matched(str, m)

\* The replacement of a placeholder whose value was looked up.
replacementFor(value, whole) ==
    IF value.t \in {"string", "number"} THEN interpretString(value) ELSE whole

\* The handler of supplant, a closure over the replacements.
supplantHandler(str, m, replacements) ==
    IF m.g[1] = <<"\\">> THEN m.g[2]
    ELSE m.g[1] \o replacementFor(access(replacements, m.g[3]), m.g[2])

\* A handler is [fn, replacements]: fn names the function, replacements is
\* what the closure of supplant holds.
DefaultHandler == [fn |-> "default", replacements |-> Undefined]
SupplantHandler(replacements) == [fn |-> "supplant", replacements |-> replacements]

callHandler(handler, str, m) ==
    IF handler.fn = "supplant"
    THEN supplantHandler(str, m, handler.replacements)
    ELSE defaultHandler(str, m)

\* What one round of the loop pushes for a match: the text before it and the
\* handler's text for it.
pushed(str, m, handler) == <<SubSeq(str, 1, m.index), callHandler(handler, str, m)>>

\* A loop that skips one character more than the match: with it the joined
\* fragments are not the input.
remainderSkipping(str, m) == substrFrom(str, m.index + m.len + 1)

\* What one round of the loop leaves of str after a match.
remainder(str, m) == substrFrom(str, m.index + m.len)

\* The while loop of tokenise, and one round of it for the match m.
RECURSIVE tokeniseLoop(_, _, _)
RECURSIVE tokeniseRound(_, _, _, _)
tokeniseLoop(str, pattern, handler) ==
    IF Len(str) = 0 THEN <<>>
    ELSE tokeniseRound(str, pattern, handler, match(str, pattern))

tokeniseRound(str, pattern, handler, m) ==
    IF ~m.found \/ m.len = 0 THEN <<str>>
    ELSE pushed(str, m, handler) \o tokeniseLoop(remainder(str, m), pattern, handler)

\* util.String.tokenise(string, pattern, handler).
tokenise(text, pattern, handler) ==
    tokeniseLoop(interpretString(text), pattern, handler)

\* util.String.supplant(string, replacements).
supplant(text, replacements) ==
    join(tokenise(text, "SUPPLANT",
                  SupplantHandler(IF truthy(replacements)
                                  THEN replacements ELSE Obj(<<>>))))

----------------------------------------------------------------------------
(* PROCESS_BRANCH and the patterns of makeIfBranch and makeEachBranch      *)

\* \w and \s (of the whitespace, the characters the model draws).
IsWord(c) ==
    \/ IsDigit(c)
    \/ c = "_"
    \/ c \in {"a", "b", "c", "d", "e", "f", "g", "h", "i", "j", "k", "l", "m",
               "n", "o", "p", "q", "r", "s", "t", "u", "v", "w", "x", "y", "z",
               "A", "B", "C", "D", "E", "F", "G", "H", "I", "J", "K", "L", "M",
               "N", "O", "P", "Q", "R", "S", "T", "U", "V", "W", "X", "Y", "Z"}

IsSpace(c) == c \in {" ", "\n", "\r", "\t"}

\* The position after the longest run of \w, of \s, of \S from i on (i itself
\* when the run is empty).
RECURSIVE wordRun(_, _)
wordRun(str, i) ==
    IF i <= Len(str) /\ IsWord(str[i]) THEN wordRun(str, i + 1) ELSE i

RECURSIVE spaceRun(_, _)
spaceRun(str, i) ==
    IF i <= Len(str) /\ IsSpace(str[i]) THEN spaceRun(str, i + 1) ELSE i

RECURSIVE nonSpaceRun(_, _)
nonSpaceRun(str, i) ==
    IF i <= Len(str) /\ ~IsSpace(str[i]) THEN nonSpaceRun(str, i + 1) ELSE i

\* ([^\}]+)\}$ after \s+ that ran from w up to sp, the first brace from sp on
\* being at close.  \s+ gives its last character back to [^\}]+ when nothing
\* else stands before the brace; the brace must end the string.
processBranchContent(str, i, p, prefix, w, sp, close) ==
    IF /\ sp > w
       /\ close = Len(str)
       /\ close > 0
       /\ (IF close = sp THEN sp - 1 ELSE sp) > w
    THEN Match(i, Len(str) - i,
               <<prefix, SubSeq(str, p + 3, w - 1),
                 SubSeq(str, IF close = sp THEN sp - 1 ELSE sp, close - 1)>>)
    ELSE NoMatch

\* \$\{#(\w+)\s+([^\}]+)\}$ at position p with the prefix given; \w+ and \s+
\* are greedy.
processBranchTail(str, i, p, prefix) ==
    IF litAt(str, p, <<"$", "{", "#">>) /\ wordRun(str, p + 3) > p + 3
    THEN processBranchContent(str, i, p, prefix, wordRun(str, p + 3),
                              spaceRun(str, wordRun(str, p + 3)),
                              indexOfChar(str, "}", spaceRun(str, wordRun(str, p + 3))))
    ELSE NoMatch

processBranchAt(str, i) ==
    firstMatch(IF i = 0 THEN processBranchTail(str, 0, 1, <<>>) ELSE NoMatch,
               IF i + 1 <= Len(str) /\ PrefixChar(str[i + 1])
               THEN processBranchTail(str, i, i + 2, <<str[i + 1]>>)
               ELSE NoMatch)

RECURSIVE processBranchFrom(_, _)
processBranchFrom(str, i) ==
    IF i > Len(str) THEN NoMatch
    ELSE firstMatch(processBranchAt(str, i), processBranchFrom(str, i + 1))

\* part.match(PROCESS_BRANCH): g = <<prefix, kind, content>>.
PROCESS_BRANCH(str) == processBranchFrom(str, 0)

\* The last position in lo..hi that holds a closing brace, or 0.
RECURSIVE lastBrace(_, _, _)
lastBrace(str, lo, hi) ==
    IF hi < lo THEN 0
    ELSE IF hi <= Len(str) /\ str[hi] = "}" THEN hi
    ELSE lastBrace(str, lo, hi - 1)

IsOpChar(c) == c \in {"<", ">", "!", "="}

\* The number of characters of [<>!=] from i on, three at most.
opRun(str, i) ==
    IF i <= Len(str) /\ IsOpChar(str[i])
    THEN IF i + 1 <= Len(str) /\ IsOpChar(str[i + 1])
         THEN IF i + 2 <= Len(str) /\ IsOpChar(str[i + 2]) THEN 3 ELSE 2
         ELSE 1
    ELSE 0

\* ([<>!=]{1,3})\s*([\S]+)\} with the operator at sp, taken n characters long
\* and then shorter: each quantifier is greedy, so the first success is the
\* longest operator and, for it, the longest operand before a brace.  v is
\* where the operand starts, brace the last brace the run of \S holds after
\* its first character.  The result holds <<test, value>>.
RECURSIVE ifGroupTry(_, _, _)
RECURSIVE ifGroupBrace(_, _, _, _, _)
ifGroupTry(str, sp, n) ==
    IF n < 1 THEN NoMatch
    ELSE ifGroupBrace(str, sp, n, spaceRun(str, sp + n),
                      lastBrace(str, spaceRun(str, sp + n) + 1,
                                nonSpaceRun(str, spaceRun(str, sp + n)) - 1))

ifGroupBrace(str, sp, n, v, brace) ==
    IF brace > 0
    THEN Match(0, 0, <<SubSeq(str, sp, sp + n - 1), SubSeq(str, v, brace - 1)>>)
    ELSE ifGroupTry(str, sp, n - 1)

\* (\s*([<>!=]{1,3})\s*([\S]+))?\} after a path that ends at e, the path tried
\* from its longest (e) down to its first character (c): with the group, then
\* without it.
RECURSIVE ifPathTry(_, _, _, _)
RECURSIVE ifPathGroup(_, _, _, _, _)
ifPathTry(str, c, e, negation) ==
    IF e < c THEN NoMatch
    ELSE ifPathGroup(str, c, e, negation,
                     ifGroupTry(str, spaceRun(str, e + 1),
                                opRun(str, spaceRun(str, e + 1))))

ifPathGroup(str, c, e, negation, group) ==
    IF group.found
    THEN Match(0, 0, <<negation, SubSeq(str, c, e), group.g[1], group.g[2]>>)
    ELSE IF e + 1 <= Len(str) /\ str[e + 1] = "}"
    THEN Match(0, 0, <<negation, SubSeq(str, c, e), <<>>, <<>> >>)
    ELSE ifPathTry(str, c, e - 1, negation)

\* (\!)?([\S]+) ... from b on: with the negation, then without it.
ifNegation(str, b) ==
    firstMatch(IF b <= Len(str) /\ str[b] = "!"
               THEN ifPathTry(str, b + 1, nonSpaceRun(str, b + 1) - 1, <<"!">>)
               ELSE NoMatch,
               ifPathTry(str, b, nonSpaceRun(str, b) - 1, <<>>))

\* The pattern of makeIfBranch with \$\{#if at position p; \s+ is greedy.
ifRegexpAt(str, p) ==
    IF litAt(str, p, <<"$", "{", "#", "i", "f">>) /\ spaceRun(str, p + 5) > p + 5
    THEN ifNegation(str, spaceRun(str, p + 5))
    ELSE NoMatch

RECURSIVE ifRegexpFrom(_, _)
ifRegexpFrom(str, p) ==
    IF p > Len(str) THEN NoMatch
    ELSE firstMatch(ifRegexpAt(str, p), ifRegexpFrom(str, p + 1))

\* condition.match(regexp) of makeIfBranch: g = <<negation, propertyPath,
\* test, value>>, a group that took no part being <<>>.
ifRegexp(condition) == ifRegexpFrom(condition, 1)

\* \s+([\w]+)\} at position t, after the collection and the key named.
eachValueAt(str, dataKey, key, t) ==
    IF /\ spaceRun(str, t) > t
       /\ wordRun(str, spaceRun(str, t)) > spaceRun(str, t)
       /\ wordRun(str, spaceRun(str, t)) <= Len(str)
       /\ str[wordRun(str, spaceRun(str, t))] = "}"
    THEN Match(0, 0, <<dataKey, key,
                       SubSeq(str, spaceRun(str, t), wordRun(str, spaceRun(str, t)) - 1)>>)
    ELSE NoMatch

\* (\s([\w]+)\s+to)? taken, at position d, the key running up to k1.
eachKeyAt(str, dataKey, d, k1) ==
    IF /\ d <= Len(str) /\ IsSpace(str[d])
       /\ k1 > d + 1
       /\ spaceRun(str, k1) > k1
       /\ litAt(str, spaceRun(str, k1), <<"t", "o">>)
    THEN eachValueAt(str, dataKey, SubSeq(str, d + 1, k1 - 1), spaceRun(str, k1) + 2)
    ELSE NoMatch

\* \s+as after the collection that stands from b up to w, \s+ running up to
\* c: the optional group is tried taken, then skipped.
eachAs(str, b, w, c) ==
    IF w > b /\ c > w /\ litAt(str, c, <<"a", "s">>)
    THEN firstMatch(eachKeyAt(str, SubSeq(str, b, w - 1), c + 2, wordRun(str, c + 3)),
                    eachValueAt(str, SubSeq(str, b, w - 1), <<>>, c + 2))
    ELSE NoMatch

\* The pattern of makeEachBranch with \$\{#each at position p, \s+ running up
\* to b.
eachRegexpAt(str, p, b) ==
    IF litAt(str, p, <<"$", "{", "#", "e", "a", "c", "h">>) /\ b > p + 7
    THEN eachAs(str, b, wordRun(str, b), spaceRun(str, wordRun(str, b)))
    ELSE NoMatch

RECURSIVE eachRegexpFrom(_, _)
eachRegexpFrom(str, p) ==
    IF p > Len(str) THEN NoMatch
    ELSE firstMatch(eachRegexpAt(str, p, spaceRun(str, p + 7)), eachRegexpFrom(str, p + 1))

\* condition.match(regexp) of makeEachBranch: g = <<dataKey, iterationKey,
\* iterationValue>>, iterationKey being <<>> when no key is named.
eachRegexp(condition) == eachRegexpFrom(condition, 1)

----------------------------------------------------------------------------
(* The comparisons of `tests` and decode                                   *)

\* The grave accent, which a string of this module cannot hold: the one
\* character that is not written as itself.
Backtick == "grave"

\* The printable ASCII characters in the order of their codes, from 32 on.
Ascii ==
    <<
      " ", "!", "\"", "#", "$", "%", "&", "'", "(", ")", "*", "+",
      ",", "-", ".", "/", "0", "1", "2", "3", "4", "5", "6", "7",
      "8", "9", ":", ";", "<", "=", ">", "?", "@", "A", "B", "C",
      "D", "E", "F", "G", "H", "I", "J", "K", "L", "M", "N", "O",
      "P", "Q", "R", "S", "T", "U", "V", "W", "X", "Y", "Z", "[",
      "\\", "]", "^", "_", Backtick, "a", "b", "c", "d", "e", "f", "g",
      "h", "i", "j", "k", "l", "m", "n", "o", "p", "q", "r", "s",
      "t", "u", "v", "w", "x", "y", "z", "{", "|", "}", "~"
    >>

\* The UTF-16 code of a character.
charCode(c) ==
    CASE c = "\t" -> 9
      [] c = "\n" -> 10
      [] c = "\r" -> 13
      [] OTHER -> 31 + (CHOOSE i \in 1..Len(Ascii) : Ascii[i] = c)

\* str.trim(), for the white space the model draws.
RECURSIVE trim(_)
trim(str) ==
    IF str # <<>> /\ IsSpace(str[1]) THEN trim(Tail(str))
    ELSE IF str # <<>> /\ IsSpace(str[Len(str)]) THEN trim(SubSeq(str, 1, Len(str) - 1))
    ELSE str

NaN == [nan |-> TRUE, n |-> 0]

\* The number a sign and a run of characters stand for, as [nan, n].
signedNumber(sign, digits) ==
    IF AllDigits(digits)
    THEN [nan |-> FALSE, n |-> IF sign = "-" THEN -digitsValue(digits) ELSE digitsValue(digits)]
    ELSE NaN

\* Number(str), as [nan, n]: of the trimmed string.  The numbers of the model
\* are integers: a numeral with a fraction, an exponent or a radix prefix is
\* not among the strings drawn.
stringToNumber(str) ==
    IF trim(str) = <<>> THEN [nan |-> FALSE, n |-> 0]
    ELSE IF trim(str)[1] \in {"+", "-"} THEN signedNumber(trim(str)[1], Tail(trim(str)))
    ELSE signedNumber("+", trim(str))

\* String(v) of a primitive.
primitiveToString(v) ==
    CASE v.t = "string" -> v.s
      [] v.t = "number" -> numberToString(v.n)
      [] v.t = "boolean" -> IF v.n = 1 THEN <<"t", "r", "u", "e">>
                            ELSE <<"f", "a", "l", "s", "e">>
      [] v.t = "null" -> <<"n", "u", "l", "l">>
      [] v.t = "undefined" -> <<"u", "n", "d", "e", "f", "i", "n", "e", "d">>
      [] OTHER -> <<"[", "o", "b", "j", "e", "c", "t", " ", "O", "b", "j", "e", "c", "t", "]">>

\* Array.prototype.join(",") over the items from i on: null and undefined
\* give the empty string.
RECURSIVE joinItems(_, _)
joinItems(items, i) ==
    IF i > Len(items) THEN <<>>
    ELSE (IF i > 1 THEN <<",">> ELSE <<>>)
         \o (IF items[i].value.t \in {"null", "undefined"} THEN <<>>
             ELSE primitiveToString(items[i].value))
         \o joinItems(items, i + 1)

\* ToPrimitive: an array is its join, an object is "[object Object]".
toPrimitive(v) ==
    CASE v.t = "array" -> Str(joinItems(v.items, 1))
      [] v.t \in {"object", "function"} -> Str(primitiveToString(v))
      [] OTHER -> v

\* ToNumber of a primitive, as [nan, n].
toNumber(v) ==
    CASE v.t = "undefined" -> NaN
      [] v.t = "null" -> [nan |-> FALSE, n |-> 0]
      [] v.t \in {"boolean", "number"} -> [nan |-> FALSE, n |-> v.n]
      [] OTHER -> stringToNumber(v.s)

\* a < b for strings: by code units, a proper prefix being the smaller.
RECURSIVE stringLess(_, _)
stringLess(a, b) ==
    IF b = <<>> THEN FALSE
    ELSE IF a = <<>> THEN TRUE
    ELSE IF a[1] = b[1] THEN stringLess(Tail(a), Tail(b))
    ELSE charCode(a[1]) < charCode(b[1])

\* The comparison of two primitives: two strings by their characters,
\* anything else as numbers, either of which may be NaN.
primitiveLess(px, py) ==
    IF px.t = "string" /\ py.t = "string"
    THEN IF stringLess(px.s, py.s) THEN "true" ELSE "false"
    ELSE IF toNumber(px).nan \/ toNumber(py).nan THEN "undefined"
    ELSE IF toNumber(px).n < toNumber(py).n THEN "true" ELSE "false"

\* The abstract relational comparison x < y: "true", "false" or, when a
\* side is NaN, "undefined".
lessThan(x, y) == primitiveLess(toPrimitive(x), toPrimitive(y))

\* x === y.
strictEquals(x, y) == x.t = y.t /\ x = y

TRUTHY == <<"t", "r", "u", "t", "h", "y">>

\* The keys of `tests`, the two aliases included.
TestNames ==
    { <<"<">>, <<">">>, <<"<", "=">>, <<">", "=">>,
      <<"!", "=", "=">>, <<"=", "=", "=">>, <<"!", "=">>, <<"=", "=">>, TRUTHY }

\* tests[test](data, value).
tests(test, data, value) ==
    CASE test = <<"<">> -> lessThan(data, value) = "true"
      [] test = <<">">> -> lessThan(value, data) = "true"
      [] test = <<"<", "=">> -> lessThan(value, data) = "false"
      [] test = <<">", "=">> -> lessThan(data, value) = "false"
      [] test \in {<<"!", "=", "=">>, <<"!", "=">>} -> ~strictEquals(data, value)
      [] test \in {<<"=", "=", "=">>, <<"=", "=">>} -> strictEquals(data, value)
      [] OTHER -> truthy(data)

\* Whether parseFloat reads a number at the start of u: a digit, or a point
\* and a digit.
startsNumber(u) ==
    /\ u # <<>>
    /\ \/ IsDigit(u[1])
       \/ (u[1] = "." /\ Len(u) >= 2 /\ IsDigit(u[2]))

\* parseFloat(str) is not NaN: white space and an optional sign, then the
\* start of a number.
parsesAsFloat(str) ==
    IF trim(str) # <<>> /\ trim(str)[1] \in {"+", "-"}
    THEN startsNumber(Tail(trim(str)))
    ELSE startsNumber(trim(str))

\* util.Number.isNumeric of a string.
isNumeric(str) == parsesAsFloat(str) /\ ~stringToNumber(str).nan

\* value.match(/^(quote)?([\s\S]+)?\1$/), quote being one of the three quotation marks: g =
\* <<quote, inner>>, a group that took no part being <<>>.  The pattern
\* matches every string.
decodeRegexp(value) ==
    IF Len(value) >= 2 /\ value[1] \in {"\"", "'", Backtick} /\ value[Len(value)] = value[1]
    THEN Match(0, Len(value), << <<value[1]>>, SubSeq(value, 2, Len(value) - 1) >>)
    ELSE Match(0, Len(value), << <<>>, value >>)

\* The end of decode, parts being what the pattern matched: parts[2] is
\* undefined when the quotes hold nothing; a deferred lookup is a function
\* value holding the path.
decodeParts(value, parts) ==
    IF parts.g[1] # <<>>
    THEN IF parts.g[2] = <<>> THEN Undefined ELSE Str(parts.g[2])
    ELSE IF isNumeric(value) THEN Num(stringToNumber(value).n)
    ELSE Func(value)

\* decode(value).
decode(value) ==
    CASE value = <<"n", "u", "l", "l">> -> Null
      [] value = <<"u", "n", "d", "e", "f", "i", "n", "e", "d">> -> Undefined
      [] value = <<"t", "r", "u", "e">> -> Bool(TRUE)
      [] value = <<"f", "a", "l", "s", "e">> -> Bool(FALSE)
      [] OTHER -> decodeParts(value, decodeRegexp(value))

----------------------------------------------------------------------------
(* Errors, branches and their render methods                               *)
(*                                                                         *)
(* A tree is the sequence of the branches made so far, a branch being      *)
(* named by its place in it (0: undefined).  Contexts are objects handed   *)
(* over by reference: a heap is a sequence of values, a reference a place  *)
(* in it, and a render returns the heap it leaves behind.                  *)

\* A thrown error: its constructor, its message, and the name the message
\* ends with.  NoError: nothing was thrown.
NoError == [name |-> "", message |-> "", detail |-> <<>>]
Error(name, message, detail) == [name |-> name, message |-> message, detail |-> detail]

TextType == <<"t", "e", "x", "t">>
BaseType == <<"b", "a", "s", "e">>
IfType == <<"i", "f">>
EachType == <<"e", "a", "c", "h">>
EndKind == <<"e", "n", "d">>

makeTextBranch(text) ==
    [type |-> TextType, text |-> text, parts |-> <<>>, branches |-> <<>>, parent |-> 0]

makeBaseBranch ==
    [type |-> BaseType, text |-> <<>>, parts |-> <<>>, branches |-> <<>>, parent |-> 0]

\* A call that throws, or returns the branch it made.
Made(err, branch) == [err |-> err, branch |-> branch]

\* The end of makeIfBranch, parts being what the pattern matched: the branch
\* keeps <<negation, propertyPath, test, value>>, test falling back to
\* "truthy" and value to "".  Reading parts[1] throws when parts is null.
ifBranchOf(condition, parts) ==
    IF ~parts.found
    THEN Made(Error("TypeError", "parts is null", <<>>), makeBaseBranch)
    ELSE Made(NoError,
              [type |-> IfType, text |-> condition,
               parts |-> <<parts.g[1], parts.g[2],
                           IF parts.g[3] = <<>> THEN TRUTHY ELSE parts.g[3],
                           parts.g[4]>>,
               branches |-> <<>>, parent |-> 0])

\* makeIfBranch(condition).
makeIfBranch(condition) == ifBranchOf(condition, ifRegexp(condition))

\* The end of makeEachBranch: the branch keeps <<dataKey, iterationKey,
\* iterationValue>>.
eachBranchOf(condition, parts) ==
    IF ~parts.found
    THEN Made(Error("TypeError", "parts is null", <<>>), makeBaseBranch)
    ELSE Made(NoError,
              [type |-> EachType, text |-> condition, parts |-> parts.g,
               branches |-> <<>>, parent |-> 0])

\* makeEachBranch(condition).
makeEachBranch(condition) == eachBranchOf(condition, eachRegexp(condition))

\* util.Number.isNumeric of a value.
isNumericValue(v) ==
    CASE v.t = "number" -> TRUE
      [] v.t = "string" -> isNumeric(v.s)
      [] v.t = "array" -> isNumeric(toPrimitive(v).s)
      [] OTHER -> FALSE

\* object.length.
lengthOf(object) ==
    IF hasOwnProperty(object, LengthKey) THEN getOwn(object, LengthKey) ELSE Undefined

\* util.Array.isArrayLike: an array, or a value whose length is numeric and
\* not negative (a string is one, and is iterable too).
isArrayLike(object) ==
    /\ object.t \notin {"null", "undefined"}
    /\ \/ object.t = "array"
       \/ /\ isNumericValue(lengthOf(object))
          /\ lessThan(lengthOf(object), Num(0)) = "false"
       \/ object.t = "string"

\* util.Array.map(object, (value, key) => {key, value}): an entry for every
\* index below the length that the object holds.
RECURSIVE arrayPairs(_, _, _)
arrayPairs(object, i, length) ==
    IF i >= length THEN <<>>
    ELSE (IF hasOwnProperty(object, natToString(i))
          THEN <<[key |-> Num(i), value |-> getOwn(object, natToString(i))]>>
          ELSE <<>>)
         \o arrayPairs(object, i + 1, length)

\* util.Object.pair: Object.keys of a primitive other than a string is empty.
objectPair(object) ==
    IF object.t \in {"object", "array"}
    THEN [i \in 1..Len(object.items) |->
            [key |-> Str(object.items[i].key), value |-> object.items[i].value]]
    ELSE IF object.t = "string"
    THEN [i \in 1..Len(object.s) |->
            [key |-> Str(natToString(i - 1)), value |-> Str(<<object.s[i]>>)]]
    ELSE <<>>

\* pair(object) of template.js.  Object.keys throws for null and undefined.
pair(object) ==
    IF isArrayLike(object)
    THEN [err |-> NoError,
          pairs |-> arrayPairs(object, 0, toNumber(toPrimitive(lengthOf(object))).n)]
    ELSE IF object.t \in {"null", "undefined"}
    THEN [err |-> Error("TypeError", "Cannot convert undefined or null to object", <<>>),
          pairs |-> <<>>]
    ELSE [err |-> NoError, pairs |-> objectPair(object)]

\* object[key] = value on a plain object.
setProperty(object, key, value) ==
    IF \E i \in 1..Len(object.items) : object.items[i].key = key
    THEN Obj([i \in 1..Len(object.items) |->
                IF object.items[i].key = key
                THEN [key |-> key, value |-> value]
                ELSE object.items[i]])
    ELSE Obj(Append(object.items, [key |-> key, value |-> value]))

\* util.Object.assign({}, data): a new object with the own enumerable
\* properties of data.
assignCopy(data) ==
    CASE data.t \in {"object", "array"} -> Obj(data.items)
      [] data.t = "string" ->
            Obj([i \in 1..Len(data.s) |->
                    [key |-> natToString(i - 1), value |-> Str(<<data.s[i]>>)]])
      [] OTHER -> Obj(<<>>)

\* A branchData that is the data itself, not a copy: with it the bindings of
\* an each are written on the context of the caller.
newBranchDataShared(heap, ref) == [heap |-> heap, ref |-> ref]

\* var branchData = util.Object.assign({}, data): the heap with the new
\* object, and the reference to it.
newBranchData(heap, ref) ==
    [heap |-> Append(heap, assignCopy(heap[ref])), ref |-> Len(heap) + 1]

\* A subject that is never negated: with it an if branch with a leading !
\* renders on the wrong side of its condition.
ifSubjectPlain(negation, property) == property

\* negation === "!" ? !property : property.
ifSubject(negation, property) ==
    IF negation = <<"!">> THEN Bool(~truthy(property)) ELSE property

\* typeof decoded === "function" ? decoded(data) : decoded.
ifOperand(decoded, data) ==
    IF decoded.t = "function" THEN access(data, decoded.s) ELSE decoded

\* The condition of ifBranch.render: shouldRender.  It stays true when
\* `tests` holds no function under the name of the test.
shouldRender(parts, data) ==
    IF parts[3] # <<>> /\ parts[3] \in TestNames
    THEN tests(parts[3],
               ifSubject(parts[1], access(data, parts[2])),
               ifOperand(decode(parts[4]), data))
    ELSE TRUE

\* data[dataKey] of eachBranch.render.
collectionOf(data, dataKey) ==
    IF hasOwnProperty(data, dataKey) THEN getOwn(data, dataKey) ELSE Undefined

\* A binding that leaves the key out: with it the children of an each that
\* names a key do not see it.
bindValueOnly(branchData, parts, p) == setProperty(branchData, parts[3], p.value)

\* branchData[iterationValue] = pair.value, and branchData[iterationKey] =
\* pair.key when a key is named.
bind(branchData, parts, p) ==
    IF parts[2] # <<>>
    THEN setProperty(setProperty(branchData, parts[3], p.value), parts[2], p.key)
    ELSE setProperty(branchData, parts[3], p.value)

\* What a render leaves: what it threw, what it returned (nothing when it
\* threw), and the heap.
RenderResult(err, out, heap) == [err |-> err, out |-> out, heap |-> heap]

\* rendered += rest, after first: a throw ends the render.
appended(first, rest) ==
    IF rest.err # NoError THEN RenderResult(rest.err, <<>>, rest.heap)
    ELSE RenderResult(NoError, first.out \o rest.out, rest.heap)

RECURSIVE renderBranch(_, _, _, _)
RECURSIVE invokeRender(_, _, _, _)
RECURSIVE invokeRest(_, _, _, _)
RECURSIVE eachChildren(_, _, _, _, _, _)
RECURSIVE eachChildrenRest(_, _, _, _, _, _)
RECURSIVE eachPairs(_, _, _, _, _)
RECURSIVE eachPairsRest(_, _, _, _, _)
RECURSIVE eachRender(_, _, _, _, _)

\* util.Array.invoke(branches, "render", data).join(""): the branches named
\* by ids rendered in order, each with the same reference.
invokeRender(tree, ids, ref, heap) ==
    IF ids = <<>> THEN RenderResult(NoError, <<>>, heap)
    ELSE invokeRest(tree, Tail(ids), ref, renderBranch(tree, Head(ids), ref, heap))

invokeRest(tree, ids, ref, first) ==
    IF first.err # NoError THEN first
    ELSE appended(first, invokeRender(tree, ids, ref, first.heap))

\* The inner forEach of eachBranch.render for one pair: every child is
\* rendered with branchData, the bindings written before each.
eachChildren(tree, id, ids, p, bref, heap) ==
    IF ids = <<>> THEN RenderResult(NoError, <<>>, heap)
    ELSE eachChildrenRest(tree, id, Tail(ids), p, bref,
                          renderBranch(tree, Head(ids), bref,
                                       [heap EXCEPT ![bref] = bind(heap[bref], tree[id].parts, p)]))

eachChildrenRest(tree, id, ids, p, bref, first) ==
    IF first.err # NoError THEN first
    ELSE appended(first, eachChildren(tree, id, ids, p, bref, first.heap))

\* The outer forEach of eachBranch.render.
eachPairs(tree, id, pairs, bref, heap) ==
    IF pairs = <<>> THEN RenderResult(NoError, <<>>, heap)
    ELSE eachPairsRest(tree, id, Tail(pairs), bref,
                       eachChildren(tree, id, tree[id].branches, Head(pairs), bref, heap))

eachPairsRest(tree, id, pairs, bref, first) ==
    IF first.err # NoError THEN first
    ELSE appended(first, eachPairs(tree, id, pairs, bref, first.heap))

\* eachBranch.render once pair(data[dataKey]) has returned or thrown: the
\* pairs are visited with branchData.
eachRender(tree, id, ref, heap, datum) ==
    IF datum.err # NoError THEN RenderResult(datum.err, <<>>, heap)
    ELSE eachPairs(tree, id, datum.pairs,
                   newBranchData(heap, ref).ref, newBranchData(heap, ref).heap)

\* branch.render(data) of the branch named id, data being heap[ref].
renderBranch(tree, id, ref, heap) ==
    CASE tree[id].type = TextType ->
           RenderResult(NoError, supplant(Str(tree[id].text), heap[ref]), heap)
      [] tree[id].type = IfType ->
           IF shouldRender(tree[id].parts, heap[ref])
           THEN invokeRender(tree, tree[id].branches, ref, heap)
           ELSE RenderResult(NoError, <<>>, heap)
      [] tree[id].type = EachType ->
           IF heap[ref].t \in {"null", "undefined"}
           THEN RenderResult(Error("TypeError", "Cannot read properties of undefined",
                                   tree[id].parts[1]), <<>>, heap)
           ELSE eachRender(tree, id, ref, heap,
                           pair(collectionOf(heap[ref], tree[id].parts[1])))
      [] OTHER -> invokeRender(tree, tree[id].branches, ref, heap)

----------------------------------------------------------------------------
(* makeTree: the tree builder.  Its state is the tree and currentBranch;   *)
(* every method returns [err, tree, current], the state it leaves and what *)
(* it threw.                                                               *)

Built(err, tree, current) == [err |-> err, tree |-> tree, current |-> current]

\* Names every object inherits from Object.prototype: types[name] is truthy
\* for them too, types being a plain object.
ObjectPrototypeNames ==
    { <<"c", "o", "n", "s", "t", "r", "u", "c", "t", "o", "r">>,
      <<"t", "o", "S", "t", "r", "i", "n", "g">>,
      <<"v", "a", "l", "u", "e", "O", "f">>,
      <<"h", "a", "s", "O", "w", "n", "P", "r", "o", "p", "e", "r", "t", "y">>,
      <<"i", "s", "P", "r", "o", "t", "o", "t", "y", "p", "e", "O", "f">>,
      <<"t", "o", "L", "o", "c", "a", "l", "e", "S", "t", "r", "i", "n", "g">> }

\* types[type]: the constructor kept under the name, "inherited" for a
\* member of Object.prototype, "" for undefined.
types(type) ==
    CASE type = EachType -> "makeEachBranch"
      [] type = TextType -> "makeTextBranch"
      [] type = IfType -> "makeIfBranch"
      [] type \in ObjectPrototypeNames -> "inherited"
      [] OTHER -> ""

\* tree.init().
treeInit == Built(NoError, <<makeBaseBranch>>, 1)

\* branches.push(branch) of the branch named id.
pushBranch(tree, id, child) ==
    [tree EXCEPT ![id].branches = Append(tree[id].branches, child)]

\* tree.addBranch(branch), the branch being new: it is made and pushed on
\* the current branch.  It throws when currentBranch is undefined.
treeAddBranch(tree, current, branch) ==
    IF current = 0
    THEN Built(Error("TypeError", "Cannot read properties of undefined", <<>>),
               tree, current)
    ELSE Built(NoError, pushBranch(Append(tree, branch), current, Len(tree) + 1), current)

\* newBranch.setParent(currentBranch), tree.addBranch(newBranch) and
\* tree.setBranch(newBranch), once types[type](content) has returned or
\* thrown.
openMade(tree, current, made) ==
    IF made.err # NoError THEN Built(made.err, tree, current)
    ELSE IF current = 0
    THEN treeAddBranch(tree, current, [made.branch EXCEPT !.parent = current])
    ELSE Built(NoError,
               treeAddBranch(tree, current, [made.branch EXCEPT !.parent = current]).tree,
               Len(tree) + 1)

\* tree.openBranch(type, content).  What types[type] returns for "text" or
\* for an inherited name has no setParent.
treeOpenBranch(tree, current, type, content) ==
    CASE types(type) = "" ->
           Built(Error("TypeError", "Unknown branch type", type), tree, current)
      [] types(type) = "makeIfBranch" -> openMade(tree, current, makeIfBranch(content))
      [] types(type) = "makeEachBranch" -> openMade(tree, current, makeEachBranch(content))
      [] OTHER ->
           Built(Error("TypeError", "newBranch.setParent is not a function", type),
                 tree, current)

\* tree.closeBranch(type).
treeCloseBranch(tree, current, type) ==
    IF current = 0
    THEN Built(Error("TypeError", "Cannot read properties of undefined", <<>>),
               tree, current)
    ELSE IF tree[current].type # type
    THEN Built(Error("SyntaxError", "Expecting type but got", type), tree, current)
    ELSE Built(NoError, tree, tree[current].parent)

\* A render without the check of the type of the current branch: with it an
\* unclosed branch is rendered.
treeRenderUnchecked(tree, current, ref, heap) ==
    IF current = 0
    THEN RenderResult(Error("TypeError", "Cannot read properties of undefined", <<>>),
                      <<>>, heap)
    ELSE renderBranch(tree, current, ref, heap)

\* tree.render(data), data being heap[ref].
treeRender(tree, current, ref, heap) ==
    IF current = 0
    THEN RenderResult(Error("TypeError", "Cannot read properties of undefined", <<>>),
                      <<>>, heap)
    ELSE IF tree[current].type # BaseType
    THEN RenderResult(Error("SyntaxError", "Unclosed branch", tree[current].type),
                      <<>>, heap)
    ELSE renderBranch(tree, current, ref, heap)

\* The kind of step a part is for setup, m being part.match(PROCESS_BRANCH).
stepKind(m) ==
    IF m.found /\ m.g[1] # <<"\\">>
    THEN IF m.g[2] = EndKind THEN "close" ELSE "open"
    ELSE "text"

\* The callback of setup's forEach for one part, m being what it matched.
setupMatch(tree, current, part, m) ==
    CASE stepKind(m) = "close" -> treeCloseBranch(tree, current, m.g[3])
      [] stepKind(m) = "open" -> treeOpenBranch(tree, current, m.g[2], matched(part, m))
      [] OTHER -> treeAddBranch(tree, current, makeTextBranch(part))

setupPart(tree, current, part) == setupMatch(tree, current, part, PROCESS_BRANCH(part))

----------------------------------------------------------------------------
(* The inputs drawn                                                        *)

\* Every string over alphabet of length at most n.
StringsUpTo(alphabet, n) == UNION {[1..k -> alphabet] : k \in 0..n}

\* Every concatenation of at most n of the pieces.
PiecesUpTo(pieces, n) == {join(ps) : ps \in StringsUpTo(pieces, n)}

\* The state before anything is called.
NoStep == [op |-> "", part |-> <<>>, before |-> 0, size |-> 0]
Step(op, part, before, size) == [op |-> op, part |-> part, before |-> before, size |-> size]
Undeclared == [declared |-> FALSE, value |-> <<>>]
Global(value) == [declared |-> TRUE, value |-> value]

TokIdle == tokIn = <<>> /\ tokPattern = "EMPTY" /\ tokOut = <<>>

TreeIdle ==
    /\ string = Undeclared
    /\ source = <<>>
    /\ pending = <<>>
    /\ fed = <<>>
    /\ branches = <<>>
    /\ currentBranch = 0
    /\ thrown = NoError
    /\ last = NoStep

RenderIdle ==
    /\ context = Undefined
    /\ contextAfter = Undefined
    /\ rendered = RenderResult(NoError, <<>>, <<>>)

MaxPieces == 3

\* What the template sources are put together from: text, a backslash,
\* placeholders, and markers: opening ones (if, each, the kinds text and
\* foo, an if written over two lines) and closing ones (if, each, base).
SourcePieces ==
    {
      <<"b", "i", "g">>,
      <<"\\">>,
      <<"$", "{", "x", "}">>,
      <<"$", "{", "v", "}">>,
      <<"$", "{", "#", "i", "f", " ", "x", "}">>,
      <<"$", "{", "#", "i", "f", " ", "c", "o", "u", "n", "t", " ", ">", " ", "5", "}">>,
      <<"$", "{", "#", "e", "n", "d", " ", "i", "f", "}">>,
      <<"$", "{", "#", "e", "a", "c", "h", " ", "x", "s", " ", "a", "s", " ", "v", "}">>,
      <<"$", "{", "#", "e", "n", "d", " ", "e", "a", "c", "h", "}">>,
      <<"$", "{", "#", "e", "n", "d", " ", "b", "a", "s", "e", "}">>,
      <<"$", "{", "#", "t", "e", "x", "t", " ", "x", "}">>,
      <<"$", "{", "#", "f", "o", "o", " ", "x", "}">>,
      <<"$", "{", "#", "i", "f", "\n", "x", "}">>
    }

Sources == PiecesUpTo(SourcePieces, MaxPieces)

\* The README's example of a condition, a second argument for template().
CountExample == <<"$", "{", "#", "i", "f", " ", "c", "o", "u", "n", "t", " ", ">", " ", "5", "}", "b", "i", "g", "$", "{", "#", "e", "n", "d", " ", "i", "f", "}">>

\* The contexts handed to render.
FullContext ==
    Obj(<<[key |-> <<"x">>, value |-> Bool(TRUE)],
          [key |-> <<"c", "o", "u", "n", "t">>, value |-> Num(10)],
          [key |-> <<"l", "i", "m", "i", "t">>, value |-> Num(10)],
          [key |-> <<"x", "s">>, value |-> Arr(<<Str(<<"a">>), Str(<<"b">>)>>)],
          [key |-> <<"o", "b", "j">>, value |-> Obj(<<[key |-> <<"p">>, value |-> Str(<<"q">>)]>>)],
          [key |-> <<"v">>, value |-> Str(<<"o", "u", "t">>)]>>)

LowContext ==
    Obj(<<[key |-> <<"x">>, value |-> Bool(FALSE)],
          [key |-> <<"c", "o", "u", "n", "t">>, value |-> Num(3)],
          [key |-> <<"l", "i", "m", "i", "t">>, value |-> Num(5)],
          [key |-> <<"x", "s">>, value |-> Arr(<<>>)],
          [key |-> <<"o", "b", "j">>, value |-> Obj(<<>>)],
          [key |-> <<"v">>, value |-> Str(<<>>)]>>)

EmptyContext == Obj(<<>>)

Contexts == {FullContext, LowContext, EmptyContext}

MaxTokLen == 4
MaxTokPieces == 3

TokAlphabet == {"$", "{", "#", "}", "a", "\n"}

TokPieces ==
    { <<"a">>, <<"\n">>, <<"}">>, <<"\\">>,
      <<"$", "{", "#", "a", "}">>,
      <<"$", "{", "a", "}">> }

TokInputs == StringsUpTo(TokAlphabet, MaxTokLen) \cup PiecesUpTo(TokPieces, MaxTokPieces)

\* The patterns handed to tokenise: BRANCH_PART by setup, the placeholder
\* pattern by supplant, and the empty pattern it falls back to.
TokPatterns == {"BRANCH_PART", "SUPPLANT", "EMPTY"}

MaxBranches == 4

\* The markers handed to makeIfBranch: every test of the table, with and
\* without a negation, operands of every kind decode tells apart, and an
\* operator the table does not hold.
IfConditions ==
    {
      <<"$", "{", "#", "i", "f", " ", "x", "}">>,
      <<"$", "{", "#", "i", "f", " ", "!", "x", "}">>,
      <<"$", "{", "#", "i", "f", " ", "c", "o", "u", "n", "t", " ", ">", " ", "5", "}">>,
      <<"$", "{", "#", "i", "f", " ", "c", "o", "u", "n", "t", " ", "<", " ", "l", "i", "m", "i", "t", "}">>,
      <<"$", "{", "#", "i", "f", " ", "c", "o", "u", "n", "t", " ", "<", "=", " ", "1", "0", "}">>,
      <<"$", "{", "#", "i", "f", " ", "c", "o", "u", "n", "t", " ", ">", "=", " ", "l", "i", "m", "i", "t", "}">>,
      <<"$", "{", "#", "i", "f", " ", "v", " ", "=", "=", " ", "'", "o", "u", "t", "'", "}">>,
      <<"$", "{", "#", "i", "f", " ", "v", " ", "!", "=", " ", "\"", "o", "u", "t", "\"", "}">>,
      <<"$", "{", "#", "i", "f", " ", "x", " ", "=", "=", "=", " ", "t", "r", "u", "e", "}">>,
      <<"$", "{", "#", "i", "f", " ", "!", "x", " ", "!", "=", "=", " ", "f", "a", "l", "s", "e", "}">>,
      <<"$", "{", "#", "i", "f", " ", "c", "o", "u", "n", "t", " ", "=", "=", " ", "'", "1", "0", "'", "}">>,
      <<"$", "{", "#", "i", "f", " ", "o", "b", "j", " ", "=", "=", "=", " ", "n", "u", "l", "l", "}">>,
      <<"$", "{", "#", "i", "f", " ", "y", " ", "=", "=", " ", "u", "n", "d", "e", "f", "i", "n", "e", "d", "}">>,
      <<"$", "{", "#", "i", "f", " ", "v", " ", "=", "=", " ", "'", "'", "}">>,
      <<"$", "{", "#", "i", "f", " ", "c", "o", "u", "n", "t", " ", "=", " ", "1", "0", "}">>
    }

\* The markers handed to makeEachBranch.
EachConditions ==
    {
      <<"$", "{", "#", "e", "a", "c", "h", " ", "x", "s", " ", "a", "s", " ", "v", "}">>,
      <<"$", "{", "#", "e", "a", "c", "h", " ", "x", "s", " ", "a", "s", " ", "k", " ", "t", "o", " ", "v", "}">>,
      <<"$", "{", "#", "e", "a", "c", "h", " ", "o", "b", "j", " ", "a", "s", " ", "k", " ", "t", "o", " ", "v", "}">>
    }

\* The texts handed to makeTextBranch: placeholders for the bindings of an
\* each.
Texts == { <<"$", "{", "v", "}">>, <<"$", "{", "k", "}", ":", "$", "{", "v", "}", ";">> }

\* What the first branch is made from, and what a branch added to one is
\* made from.
RootConditions == IfConditions \cup EachConditions
ChildConditions ==
    {
      <<"$", "{", "#", "i", "f", " ", "x", "}">>,
      <<"$", "{", "#", "e", "a", "c", "h", " ", "x", "s", " ", "a", "s", " ", "v", "}">>
    }

----------------------------------------------------------------------------
(* Spec: template(string) and the render of what it returns.  setup's      *)
(* forEach visits one fragment per step.                                   *)

Init ==
    /\ pc = "idle"
    /\ string \in {Undeclared} \cup {Global(s) : s \in Sources}
    /\ source = <<>>
    /\ pending = <<>>
    /\ fed = <<>>
    /\ branches = <<>>
    /\ currentBranch = 0
    /\ thrown = NoError
    /\ last = NoStep
    /\ RenderIdle
    /\ TokIdle

\* template(src) up to setup's call of tokenise: makeTree, tree.init, and
\* the fragments of `string`, which setup reads as a free variable: the
\* global of that name, or a ReferenceError when there is none.
Template(src) ==
    /\ pc = "idle"
    /\ source' = src
    /\ branches' = treeInit.tree
    /\ currentBranch' = treeInit.current
    /\ last' = Step("template", <<>>, 0, 0)
    /\ IF string.declared
       THEN /\ fed' = tokenise(Str(string.value), "BRANCH_PART", DefaultHandler)
            /\ pending' = fed'
            /\ thrown' = NoError
            /\ pc' = IF fed' = <<>> THEN "ready" ELSE "setup"
       ELSE /\ fed' = <<>>
            /\ pending' = <<>>
            /\ thrown' = Error("ReferenceError", "string is not defined", <<>>)
            /\ pc' = "failed"
    /\ UNCHANGED <<string, renderVars, tokVars>>

\* What one round of setup's forEach leaves, done being what the callback
\* returned or threw.  A throw ends template().
SetupDone(part, done) ==
    /\ branches' = done.tree
    /\ currentBranch' = done.current
    /\ thrown' = done.err
    /\ pending' = Tail(pending)
    /\ last' = Step(stepKind(PROCESS_BRANCH(part)), part, currentBranch, Len(branches))
    /\ pc' = IF done.err # NoError THEN "failed"
             ELSE IF Tail(pending) = <<>> THEN "ready" ELSE "setup"
    /\ UNCHANGED <<string, source, fed, renderVars, tokVars>>

\* One round of setup's forEach.
Setup ==
    /\ pc = "setup"
    /\ SetupDone(Head(pending), setupPart(branches, currentBranch, Head(pending)))

\* A render that steps back to the parent of the current branch: with it a
\* render changes the state of the builder.
RenderDoneStepping(d, result) ==
    /\ context' = d
    /\ contextAfter' = result.heap[1]
    /\ rendered' = result
    /\ thrown' = result.err
    /\ last' = Step("render", <<>>, currentBranch, Len(branches))
    /\ currentBranch' = IF currentBranch = 0 THEN 0 ELSE branches[currentBranch].parent
    /\ UNCHANGED <<pc, string, source, pending, fed, branches, tokVars>>

\* What template.render(d) leaves, result being what tree.render returned
\* or threw.
RenderDone(d, result) ==
    /\ context' = d
    /\ contextAfter' = result.heap[1]
    /\ rendered' = result
    /\ thrown' = result.err
    /\ last' = Step("render", <<>>, currentBranch, Len(branches))
    /\ UNCHANGED <<pc, string, source, pending, fed, branches, currentBranch, tokVars>>

\* template.render(d), template() having returned.
Render(d) ==
    /\ pc = "ready"
    /\ RenderDone(d, treeRender(branches, currentBranch, 1, <<d>>))

Next ==
    \/ \E src \in {string.value, CountExample} : Template(src)
    \/ Setup
    \/ \E d \in Contexts : Render(d)

Spec == Init /\ [][Next]_vars

----------------------------------------------------------------------------
(* SpecTokenise: util.String.tokenise with the default handler, applied to *)
(* every string drawn.                                                     *)

InitTokenise ==
    /\ pc = "start"
    /\ tokIn \in TokInputs
    /\ tokPattern = "EMPTY"
    /\ tokOut = <<>>
    /\ TreeIdle
    /\ RenderIdle

Tokenise(pattern) ==
    /\ pc = "start"
    /\ pc' = "tokenised"
    /\ tokPattern' = pattern
    /\ tokOut' = tokenise(Str(tokIn), pattern, DefaultHandler)
    /\ UNCHANGED <<tokIn, treeVars, renderVars>>

NextTokenise == \E pattern \in TokPatterns : Tokenise(pattern)

SpecTokenise == InitTokenise /\ [][NextTokenise]_vars

----------------------------------------------------------------------------
(* SpecBranch: branches made by template.makeIfBranch, makeEachBranch and  *)
(* makeTextBranch, put together with addBranch, and the render of the      *)
(* first of them.                                                          *)

InitBranch ==
    /\ pc = "build"
    /\ string = Undeclared
    /\ source = <<>>
    /\ pending = <<>>
    /\ fed = <<>>
    /\ branches = <<>>
    /\ currentBranch = 0
    /\ thrown = NoError
    /\ last = NoStep
    /\ RenderIdle
    /\ TokIdle

\* The branches that can hold others.
Containers == {id \in 1..Len(branches) : branches[id].type \in {IfType, EachType}}

\* under.addBranch(made.branch), or the first branch kept as it is made
\* (under = 0).  Nothing is added when the constructor threw.
AddMade(op, text, under, made) ==
    /\ made.err = NoError
    /\ branches' = IF under = 0
                   THEN <<made.branch>>
                   ELSE pushBranch(Append(branches, made.branch), under, Len(branches) + 1)
    /\ last' = Step(op, text, under, Len(branches))
    /\ UNCHANGED <<pc, string, source, pending, fed, currentBranch, thrown,
                   renderVars, tokVars>>

\* Where a new branch goes: the first stands alone, the others are added to
\* a branch that holds others.
Places == IF branches = <<>> THEN {0} ELSE Containers

\* The markers drawn for a new branch.
ConditionsAt(all) == IF branches = <<>> THEN all ELSE all \cap ChildConditions

MakeIf(condition, under) ==
    /\ pc = "build"
    /\ Len(branches) < MaxBranches
    /\ AddMade("makeIfBranch", condition, under, makeIfBranch(condition))

MakeEach(condition, under) ==
    /\ pc = "build"
    /\ Len(branches) < MaxBranches
    /\ AddMade("makeEachBranch", condition, under, makeEachBranch(condition))

MakeText(text, under) ==
    /\ pc = "build"
    /\ Len(branches) < MaxBranches
    /\ under # 0
    /\ AddMade("makeTextBranch", text, under, Made(NoError, makeTextBranch(text)))

\* What branch.render(d) of the first branch leaves.
RenderBranchDone(d, result) ==
    /\ pc' = "rendered"
    /\ context' = d
    /\ contextAfter' = result.heap[1]
    /\ rendered' = result
    /\ thrown' = result.err
    /\ last' = Step("render", <<>>, 1, Len(branches))
    /\ UNCHANGED <<string, source, pending, fed, branches, currentBranch, tokVars>>

RenderBranch(d) ==
    /\ pc = "build"
    /\ branches # <<>>
    /\ RenderBranchDone(d, renderBranch(branches, 1, 1, <<d>>))

NextBranch ==
    \/ \E under \in Places : \E condition \in ConditionsAt(IfConditions) :
          MakeIf(condition, under)
    \/ \E under \in Places : \E condition \in ConditionsAt(EachConditions) :
          MakeEach(condition, under)
    \/ \E under \in Places : \E text \in Texts : MakeText(text, under)
    \/ \E d \in Contexts : RenderBranch(d)

SpecBranch == InitBranch /\ [][NextBranch]_vars

----------------------------------------------------------------------------
(* The claims about tokenise, under SpecTokenise                           *)

\* C1: the fragments tokenise returns with the default handler, joined in
\* order, are the input string: nothing is dropped, duplicated or reordered,
\* whether the pattern matches, never matches or matches the empty string.
C1_RoundTrip == pc = "tokenised" => join(tokOut) = tokIn

\* Two markers were found and text follows the second.
C1_Witness ==
    /\ pc = "tokenised"
    /\ tokPattern = "BRANCH_PART"
    /\ Len(tokOut) = 5
    /\ tokOut[5] # <<>>

----------------------------------------------------------------------------
(* The claims about template() and template.render, under Spec.  Where a   *)
(* claim speaks of the template source, the states looked at are those in  *)
(* which the argument of template() is also what the global holds.         *)

\* C2: when render is called while the current branch is an if or an each
\* that is still open, it throws the unclosed-branch error that names the
\* type of that branch, and returns nothing.
C2_UnclosedRenderFails ==
    (/\ last.op = "render"
     /\ currentBranch # 0
     /\ branches[currentBranch].type \in {IfType, EachType})
    => /\ thrown = Error("SyntaxError", "Unclosed branch", branches[currentBranch].type)
       /\ rendered.out = <<>>

\* A render with an each still open, the root holding a text before it.
C2_Witness ==
    /\ last.op = "render"
    /\ currentBranch # 0
    /\ branches[currentBranch].type = EachType
    /\ Len(branches[1].branches) = 2
    /\ thrown.name = "SyntaxError"

\* The kind a marker names, after its # or after its end.
openKind(part) == PROCESS_BRANCH(part).g[2]
closeKind(part) == PROCESS_BRANCH(part).g[3]

\* C3: a close marker whose kind is not the type of the branch that is open
\* throws a SyntaxError and leaves the current branch where it was; at the
\* root, where nothing is open, every close marker does.
C3_MismatchedCloseFails ==
    (/\ last.op = "close"
     /\ last.before # 0
     /\ (last.before = 1 \/ branches[last.before].type # closeKind(last.part)))
    => /\ thrown.name = "SyntaxError"
       /\ currentBranch = last.before

\* C4: an open marker whose kind is neither if nor each throws the
\* unknown-branch-type error, adds no branch and leaves the current branch
\* where it was.
C4_UnknownKindRejected ==
    (last.op = "open" /\ openKind(last.part) \notin {IfType, EachType})
    => /\ thrown.message = "Unknown branch type"
       /\ Len(branches) = last.size
       /\ currentBranch = last.before

\* C5: the fragments template(source) feeds to the tree builder are the
\* fragments of its argument.
C5_CompilesArgument ==
    last.op # "" => fed = tokenise(Str(source), "BRANCH_PART", DefaultHandler)

\* A source with its control markers removed.
RECURSIVE stripMarkers(_)
stripMarkers(str) ==
    IF str = <<>> THEN <<>>
    ELSE IF litAt(str, 1, <<"$", "{", "#">>) /\ indexOfChar(str, "}", 4) > 0
    THEN stripMarkers(substrFrom(str, indexOfChar(str, "}", 4)))
    ELSE <<Head(str)>> \o stripMarkers(Tail(str))

\* The sources made of text and of if markers only: no placeholder, no
\* backslash.
IfOnlySources ==
    PiecesUpTo({ <<"b", "i", "g">>, <<"$", "{", "#", "i", "f", " ", "x", "}">>, <<"$", "{", "#", "i", "f", " ", "c", "o", "u", "n", "t", " ", ">", " ", "5", "}">>, <<"$", "{", "#", "e", "n", "d", " ", "i", "f", "}">> }, MaxPieces)

\* C6: a template of text and well-formed if blocks whose conditions hold
\* renders as its source with the markers removed, the character before each
\* marker included.
C6_LiteralTextKept ==
    (/\ last.op = "render"
     /\ thrown = NoError
     /\ source = string.value
     /\ source \in IfOnlySources
     /\ context = FullContext)
    => rendered.out = stripMarkers(source)

\* The placeholders and markers a source is put together from.
EscapablePieces == {piece \in SourcePieces : litAt(piece, 1, <<"$", "{">>)}

\* C7: a source that is a backslash and then a placeholder or a marker is
\* literal: the step for the marker appends one text branch and leaves the
\* current branch where it was, and the render returns the placeholder or the
\* marker as written, without the backslash.
C7_EscapedIsLiteral ==
    \A piece \in EscapablePieces :
        (source = string.value /\ source = <<"\\">> \o piece)
        => /\ (last.op \in {"text", "open", "close"} /\ last.part = source)
              => /\ last.op = "text"
                 /\ thrown = NoError
                 /\ Len(branches) = last.size + 1
                 /\ branches[Len(branches)].type = TextType
                 /\ currentBranch = last.before
           /\ last.op = "render"
              => /\ thrown = NoError
                 /\ rendered.out = piece

----------------------------------------------------------------------------
(* The claims about the render of an if and of an each branch, under       *)
(* SpecBranch                                                              *)

\* What each of the branches ids returns or throws when it is rendered on
\* its own with the context d.
childResults(tree, ids, d) ==
    [i \in 1..Len(ids) |-> renderBranch(tree, ids[i], 1, <<d>>)]

allReturn(results) == \A i \in 1..Len(results) : results[i].err = NoError

outputs(results) == join([i \in 1..Len(results) |-> results[i].out])

\* a op b, for the operators an if marker may hold; the truthiness of a when
\* it holds none.
comparisonHolds(op, a, b) ==
    CASE op = <<"<">> -> lessThan(a, b) = "true"
      [] op = <<">">> -> lessThan(b, a) = "true"
      [] op = <<"<", "=">> -> lessThan(b, a) = "false"
      [] op = <<">", "=">> -> lessThan(a, b) = "false"
      [] op \in {<<"=", "=", "=">>, <<"=", "=">>} -> strictEquals(a, b)
      [] op \in {<<"!", "=", "=">>, <<"!", "=">>} -> ~strictEquals(a, b)
      [] OTHER -> truthy(a)

\* The condition of an if branch in the context d: the value at its path,
\* negated when the marker has a leading !, compared with the decoded operand
\* (looked up in d when it is a path) by the operator of the marker.
conditionHolds(parts, d) ==
    LET resolved == access(d, parts[2])
        decoded == decode(parts[4])
    IN comparisonHolds(parts[3],
                       IF parts[1] = <<"!">> THEN Bool(~truthy(resolved)) ELSE resolved,
                       IF decoded.t = "function" THEN access(d, decoded.s) ELSE decoded)

\* C8: an if branch whose test is one of the table returns the empty string
\* when its condition is false and, when it is true, what its children
\* return for the same context, joined in their order (it throws when one of
\* them does).
C8_IfRender ==
    (/\ pc = "rendered"
     /\ branches[1].type = IfType
     /\ branches[1].parts[3] \in TestNames)
    => LET results == childResults(branches, branches[1].branches, context)
       IN IF ~conditionHolds(branches[1].parts, context)
          THEN rendered.err = NoError /\ rendered.out = <<>>
          ELSE IF allReturn(results)
          THEN rendered.err = NoError /\ rendered.out = outputs(results)
          ELSE rendered.err # NoError

\* A negated path compared with a literal, true in the context, with two
\* children that return text.
C8_Witness ==
    /\ pc = "rendered"
    /\ branches[1].type = IfType
    /\ branches[1].parts = << <<"!">>, <<"x">>, <<"!", "=", "=">>, <<"f", "a", "l", "s", "e">> >>
    /\ Len(branches[1].branches) = 2
    /\ rendered.err = NoError
    /\ rendered.out # <<>>

\* The elements of a collection in order, each with its key: the indices of
\* an array, the names of an object.
elements(collection) ==
    [i \in 1..Len(collection.items) |->
        [key |-> IF collection.t = "array" THEN Num(i - 1)
                 ELSE Str(collection.items[i].key),
         value |-> collection.items[i].value]]

\* A copy of the context d in which the value binding, and the key binding
\* when one is named, hold the value and the key of the element e.
iterationContext(d, parts, e) ==
    IF parts[2] # <<>>
    THEN setProperty(setProperty(d, parts[3], e.value), parts[2], e.key)
    ELSE setProperty(d, parts[3], e.value)

\* What the children ids return, element by element and child by child.
eachResults(tree, ids, d, parts, elems) ==
    [n \in 1..(Len(elems) * Len(ids)) |->
        renderBranch(tree, ids[((n - 1) % Len(ids)) + 1], 1,
                     <<iterationContext(d, parts, elems[((n - 1) \div Len(ids)) + 1])>>)]

\* C9: an each branch over an array or an object returns, for every element
\* in order, what its children return in their order with the bindings set
\* to the value and the key of the element; over no element it returns the
\* empty string.
C9_EachRender ==
    (/\ pc = "rendered"
     /\ branches[1].type = EachType
     /\ access(context, branches[1].parts[1]).t \in {"array", "object"})
    => LET elems == elements(access(context, branches[1].parts[1]))
           results == eachResults(branches, branches[1].branches, context,
                                  branches[1].parts, elems)
       IN /\ IF allReturn(results)
             THEN rendered.err = NoError /\ rendered.out = outputs(results)
             ELSE rendered.err # NoError
          /\ elems = <<>> => (rendered.err = NoError /\ rendered.out = <<>>)

\* Two elements and two children, the key and the value bound.
C9_Witness ==
    /\ pc = "rendered"
    /\ branches[1].type = EachType
    /\ branches[1].parts = << <<"x", "s">>, <<"k">>, <<"v">> >>
    /\ Len(branches[1].branches) = 2
    /\ rendered.out = <<"0", ":", "a", ";", "a", "1", ":", "b", ";", "b">>

\* C10: a render leaves the context it was given as it was, and what an if
\* branch returns is what its children return for that context: a text that
\* follows an each reads the context, not the bindings of the each.
C10_ContextUnchanged ==
    pc = "rendered"
    => /\ contextAfter = context
       /\ (branches[1].type = IfType /\ rendered.err = NoError)
          => rendered.out \in
                {<<>>, outputs(childResults(branches, branches[1].branches, context))}

\* An each that binds v, a name the context holds, and after it a text that
\* reads v.
C10_Witness ==
    /\ pc = "rendered"
    /\ context = FullContext
    /\ branches[1].type = IfType
    /\ Len(branches) = 4
    /\ branches[2].parts = << <<"x", "s">>, <<>>, <<"v">> >>
    /\ rendered.out = <<"a", "b", "o", "u", "t">>

----------------------------------------------------------------------------
(* The claims about missing data, the operators of an if marker and the    *)
(* operand it is compared with                                             *)

\* C11: a render of a tree whose branches are all closed never throws
\* because of missing data: an if on a path the context does not hold, a
\* placeholder of such a path and an each whose collection the context does
\* not hold all return a string.
C11_MissingDataNeverRaises ==
    (last.op = "render" /\ currentBranch = 1 /\ context.t = "object")
    => thrown = NoError

\* C12: every if branch that was made carries one of the tests of the
\* table (<, >, <=, >=, ===, ==, !==, != or the truthiness test): a marker
\* with another operator makes no branch.
C12_OperatorSupported ==
    \A id \in 1..Len(branches) :
        branches[id].type = IfType => branches[id].parts[3] \in TestNames

\* What a token decodes to when the interpretations are tried in the order
\* null, undefined, true and false, then a pair of matching quotes, then a
\* number, then a path.
decodedInOrder(token) ==
    CASE token = <<"n", "u", "l", "l">> -> Null
      [] token = <<"u", "n", "d", "e", "f", "i", "n", "e", "d">> -> Undefined
      [] token = <<"t", "r", "u", "e">> -> Bool(TRUE)
      [] token = <<"f", "a", "l", "s", "e">> -> Bool(FALSE)
      [] OTHER ->
           IF /\ Len(token) >= 2
              /\ token[1] \in {"\"", "'", Backtick}
              /\ token[Len(token)] = token[1]
           THEN Str(SubSeq(token, 2, Len(token) - 1))
           ELSE IF isNumeric(token) THEN Num(stringToNumber(token).n)
           ELSE Func(token)

\* C13: the operand of every if branch decodes to the one interpretation
\* that comes first in that order: a quoted numeral is a string, and quotes
\* that hold nothing are the empty string.
C13_DecodeOrder ==
    \A id \in 1..Len(branches) :
        branches[id].type = IfType
        => decode(branches[id].parts[4]) = decodedInOrder(branches[id].parts[4])

----------------------------------------------------------------------------
(* The claims about the tree the builder keeps, under Spec                 *)

\* C14: after every step of the builder that did not throw, the current
\* branch is a branch that holds others (the root, an if or an each): it is
\* never undefined and never a text.
C14_PointerIsContainer ==
    (last.op \in {"template", "text", "open", "close"} /\ thrown = NoError)
    => /\ currentBranch \in 1..Len(branches)
       /\ branches[currentBranch].type \in {BaseType, IfType, EachType}

\* Whether following getParent() from the branch id arrives at the root in
\* at most fuel steps, and the number of steps it takes.
RECURSIVE reachesRoot(_, _, _)
reachesRoot(tree, id, fuel) ==
    IF id = 1 THEN TRUE
    ELSE IF id = 0 \/ fuel = 0 THEN FALSE
    ELSE reachesRoot(tree, tree[id].parent, fuel - 1)

RECURSIVE depthOf(_, _, _)
depthOf(tree, id, fuel) ==
    IF id = 1 \/ id = 0 \/ fuel = 0 THEN 0
    ELSE 1 + depthOf(tree, tree[id].parent, fuel - 1)

\* The fragments setup has handled without a throw, and the opens among
\* them minus the closes.
handled ==
    SubSeq(fed, 1, Len(fed) - Len(pending) - (IF thrown # NoError THEN 1 ELSE 0))

RECURSIVE opensLessCloses(_)
opensLessCloses(parts) ==
    IF parts = <<>> THEN 0
    ELSE (CASE stepKind(PROCESS_BRANCH(Head(parts))) = "open" -> 1
            [] stepKind(PROCESS_BRANCH(Head(parts))) = "close" -> -1
            [] OTHER -> 0)
         + opensLessCloses(Tail(parts))

\* The places at which the branch id stands in a list of children.
placesOf(id) ==
    {p \in (1..Len(branches)) \X (1..Len(branches)) :
        /\ p[2] <= Len(branches[p[1]].branches)
        /\ branches[p[1]].branches[p[2]] = id}

\* C15: after every step of the builder, every if and each branch stands
\* once in the children of one branch, which is its parent; an open makes
\* the branch that was current the parent of the new one, a close that does
\* not throw moves to the parent of the branch that was current; from the
\* current branch the parents lead to the root, in as many steps as there
\* were opens less closes.
C15_TreeShape ==
    last.op \in {"template", "text", "open", "close"}
    => /\ \A id \in 1..Len(branches) :
            branches[id].type \in {IfType, EachType}
            => /\ Cardinality(placesOf(id)) = 1
               /\ \A p \in placesOf(id) : p[1] = branches[id].parent
       /\ (last.op = "open" /\ thrown = NoError)
          => /\ currentBranch = Len(branches)
             /\ branches[currentBranch].parent = last.before
       /\ (last.op = "close" /\ thrown = NoError)
          => currentBranch = branches[last.before].parent
       /\ reachesRoot(branches, currentBranch, Len(branches))
       /\ depthOf(branches, currentBranch, Len(branches)) = opensLessCloses(handled)

====
